---------------------------- MODULE Spec2Model ----------------------------
(***************************************************************************)
(* Model of SmartClamp_ESP32_Firmware.ino: setup() joins the wireless      *)
(* network, loop() drains the simulated battery, reports the clamp's       *)
(* status with one blocking HTTP POST and sleeps.                          *)
(*                                                                         *)
(* The sketch is single-threaded.  Its blocking calls (delay, http.POST)   *)
(* are the points where the environment (the wireless link, the server)    *)
(* can act, so each blocking call ends one step of the model.              *)
(***************************************************************************)
EXTENDS Integers, Sequences, FiniteSets, TLC

(***************************************************************************)
(* Bounds of the model (not program constants).  The counters below are    *)
(* observers: they saturate at their bound and never block the program.    *)
(***************************************************************************)
MaxTicks == 103
MaxGap == 3
LiveMaxBattery == 3

(***************************************************************************)
(* Program constants.                                                      *)
(***************************************************************************)
InitialBatteryLevel == 95
flaskAppPort == 5000
flaskAppHost == "192.168.1.8"
statusUpdateEndpoint == "/api/clamp_status_update"
InitialClampId == "PHYSICAL_CLAMP_001"
InitialClampCity == "Pune"
InitialClampStatus == "available"
LowBattery == "low_battery"

\* The initial battery levels the model starts from: the percentage range,
\* which holds the sketch's own initial value.
InitialBatteryLevels == 0..100

\* Results of http.POST: HTTP status codes (positive) and the client's
\* transport error codes (negative, e.g. connection refused, read timeout).
ResponseCodes == {200, 500, -1, -11}

VARIABLES
    pc,               \* where the single thread of control is
    wifi,             \* WiFi.status() == WL_CONNECTED
    wifiBegun,        \* WiFi.begin() has been called
    clampId,          \* String clampId
    clampCity,        \* String clampCity
    batteryLevel,     \* int batteryLevel
    clampStatus,      \* String clampStatus
    inFlight,         \* the HTTP requests sent and not yet answered
    httpResponseCode, \* the local of sendStatusUpdate: <<>> or <<code>>
    initBattery,      \* observer: the initial batteryLevel
    ticks,            \* observer: battery updates run so far (saturating)
    everLinked,       \* observer: the link has been up at some time
    sawConnected,     \* observer: WiFi.status() has returned WL_CONNECTED
    everPosted,       \* observer: http.POST has been called at some time
    postsInCycle,     \* observer: http.POST calls since the last tick
    ticksSincePost,   \* observer: ticks since the last http.POST (saturating)
    delaysSincePost   \* observer: delay(5000) since the last http.POST (sat.)

record == <<clampId, clampCity, batteryLevel, clampStatus>>
observers == <<initBattery, ticks, everLinked, sawConnected, everPosted,
               postsInCycle, ticksSincePost, delaysSincePost>>
vars == <<pc, wifi, wifiBegun, clampId, clampCity, batteryLevel, clampStatus,
          inFlight, httpResponseCode, observers>>

Saturate(n, bound) == IF n < bound THEN n + 1 ELSE bound

(***************************************************************************)
(* JSON: the document built in sendStatusUpdate and its serialization.     *)
(* A document is the sequence of its members in insertion order; the       *)
(* serialized text is a sequence of tokens (punctuation, quoted strings,   *)
(* decimal digits).                                                        *)
(***************************************************************************)
Tok(t, v) == [t |-> t, v |-> v]
StringValue(s) == [type |-> "string", str |-> s, int |-> 0]
IntValue(n) == [type |-> "int", str |-> "", int |-> n]
DigitChars == <<"0", "1", "2", "3", "4", "5", "6", "7", "8", "9">>

\* doc[key] = value: replaces the member named key, or appends a new one.
DocSet(doc, key, value) ==
    IF \E i \in 1..Len(doc) : doc[i].key = key
    THEN [i \in 1..Len(doc) |->
             IF doc[i].key = key THEN [key |-> key, value |-> value] ELSE doc[i]]
    ELSE Append(doc, [key |-> key, value |-> value])

RECURSIVE IntDigits(_)
IntDigits(n) ==
    IF n < 10
    THEN <<Tok("digit", DigitChars[n + 1])>>
    ELSE IntDigits(n \div 10) \o <<Tok("digit", DigitChars[(n % 10) + 1])>>

IntToTokens(n) ==
    IF n < 0 THEN <<Tok("punct", "-")>> \o IntDigits(-n) ELSE IntDigits(n)

SerializeValue(v) ==
    IF v.type = "string" THEN <<Tok("str", v.str)>> ELSE IntToTokens(v.int)

RECURSIVE SerializeMembers(_)
SerializeMembers(doc) ==
    IF doc = <<>>
    THEN <<>>
    ELSE <<Tok("str", Head(doc).key), Tok("punct", ":")>>
         \o SerializeValue(Head(doc).value)
         \o (IF Len(doc) > 1 THEN <<Tok("punct", ",")>> ELSE <<>>)
         \o SerializeMembers(Tail(doc))

SerializeJson(doc) ==
    <<Tok("punct", "{")>> \o SerializeMembers(doc) \o <<Tok("punct", "}")>>

\* A slip in filling the document: status and city land under each other's key.
StatusDocSwapped(id, status, city, battery) ==
    DocSet(DocSet(DocSet(DocSet(<<>>,
        "clamp_id", StringValue(id)),
        "status", StringValue(city)),
        "city", StringValue(status)),
        "battery_level", IntValue(battery))

\* The document sendStatusUpdate fills from the four globals.
StatusDoc(id, status, city, battery) ==
    DocSet(DocSet(DocSet(DocSet(<<>>,
        "clamp_id", StringValue(id)),
        "status", StringValue(status)),
        "city", StringValue(city)),
        "battery_level", IntValue(battery))

RequestBody(id, status, city, battery) ==
    SerializeJson(StatusDoc(id, status, city, battery))

ServerPath == [scheme |-> "http://", host |-> flaskAppHost,
               port |-> flaskAppPort, path |-> statusUpdateEndpoint]

Request(body) ==
    [url |-> ServerPath, contentType |-> "application/json", body |-> body]

(***************************************************************************)
(* The receiver's reading of a payload: a JSON object as a function from   *)
(* its keys to its values (the last member of a name wins).                *)
(***************************************************************************)
DigitValue(c) == CHOOSE d \in 0..9 : DigitChars[d + 1] = c

RECURSIVE ParseDigits(_, _, _)
ParseDigits(toks, i, acc) ==
    IF i <= Len(toks) /\ toks[i].t = "digit"
    THEN ParseDigits(toks, i + 1, 10 * acc + DigitValue(toks[i].v))
    ELSE [int |-> acc, next |-> i]

ParseValue(toks, i) ==
    IF toks[i].t = "str"
    THEN [value |-> StringValue(toks[i].v), next |-> i + 1]
    ELSE IF toks[i] = Tok("punct", "-")
    THEN LET d == ParseDigits(toks, i + 1, 0)
         IN  [value |-> IntValue(-d.int), next |-> d.next]
    ELSE LET d == ParseDigits(toks, i, 0)
         IN  [value |-> IntValue(d.int), next |-> d.next]

RECURSIVE ParseMembers(_, _, _)
ParseMembers(toks, i, obj) ==
    IF toks[i] = Tok("punct", "}")
    THEN obj
    ELSE LET j == IF toks[i] = Tok("punct", ",") THEN i + 1 ELSE i
             v == ParseValue(toks, j + 2)
         IN  ParseMembers(toks, v.next, (toks[j].v :> v.value) @@ obj)

ParseJson(toks) == ParseMembers(toks, 2, <<>>)

(***************************************************************************)
(* The battery simulation at the top of loop().                            *)
(***************************************************************************)
\* A drain without the floor at 0.
TickBatteryNoFloor(b) == b - 1

TickBattery(b) == IF b > 0 THEN b - 1 ELSE 0

\* A status update that looks at the level the tick has just produced.
TickStatusEager(b, s) == IF b > 1 THEN s ELSE LowBattery

TickStatus(b, s) == IF b > 0 THEN s ELSE LowBattery

(***************************************************************************)
(* The initial state: the globals as declared, the link down.              *)
(***************************************************************************)
Init ==
    /\ pc = "setup"
    /\ wifi = FALSE
    /\ wifiBegun = FALSE
    /\ clampId = InitialClampId
    /\ clampCity = InitialClampCity
    /\ initBattery \in InitialBatteryLevels
    /\ batteryLevel = initBattery
    /\ clampStatus = InitialClampStatus
    /\ inFlight = <<>>
    /\ httpResponseCode = <<>>
    /\ ticks = 0
    /\ everLinked = FALSE
    /\ sawConnected = FALSE
    /\ everPosted = FALSE
    /\ postsInCycle = 0
    /\ ticksSincePost = 0
    /\ delaysSincePost = 0

(***************************************************************************)
(* The environment: once WiFi.begin() has run, the link comes up and goes  *)
(* down on its own.                                                        *)
(***************************************************************************)
LinkChange ==
    /\ wifiBegun
    /\ wifi' = ~wifi
    /\ everLinked' = (everLinked \/ wifi')
    /\ UNCHANGED <<pc, wifiBegun, record, inFlight, httpResponseCode,
                   initBattery, ticks, sawConnected, everPosted, postsInCycle,
                   ticksSincePost, delaysSincePost>>

(***************************************************************************)
(* setup() and connectToWiFi().                                            *)
(***************************************************************************)
\* setup() up to the first test of the while loop: WiFi.begin(ssid, password).
ConnectBegin ==
    /\ pc = "setup"
    /\ wifiBegun' = TRUE
    /\ pc' = "connect_check"
    /\ UNCHANGED <<wifi, record, inFlight, httpResponseCode, observers>>

\* A connect that gives up polling and returns whatever the link's state.
ConnectCheckGivesUp ==
    /\ pc = "connect_check"
    /\ pc' = "settle"
    /\ sawConnected' = (sawConnected \/ wifi)
    /\ UNCHANGED <<wifi, wifiBegun, record, inFlight, httpResponseCode,
                   initBattery, ticks, everLinked, everPosted, postsInCycle,
                   ticksSincePost, delaysSincePost>>

\* while (WiFi.status() != WL_CONNECTED): the test.  When it fails the
\* function returns into setup(), which starts its delay(2000).
ConnectCheck ==
    /\ pc = "connect_check"
    /\ pc' = IF wifi THEN "settle" ELSE "connect_delay"
    /\ sawConnected' = (sawConnected \/ wifi)
    /\ UNCHANGED <<wifi, wifiBegun, record, inFlight, httpResponseCode,
                   initBattery, ticks, everLinked, everPosted, postsInCycle,
                   ticksSincePost, delaysSincePost>>

\* delay(1000) in the body of the while loop.
ConnectDelay ==
    /\ pc = "connect_delay"
    /\ pc' = "connect_check"
    /\ UNCHANGED <<wifi, wifiBegun, record, inFlight, httpResponseCode, observers>>

\* delay(2000) in setup(); loop() starts when it returns.
Settle ==
    /\ pc = "settle"
    /\ pc' = "loop"
    /\ UNCHANGED <<wifi, wifiBegun, record, inFlight, httpResponseCode, observers>>

(***************************************************************************)
(* loop().                                                                 *)
(***************************************************************************)
\* The battery update at the top of loop(), up to the call of
\* sendStatusUpdate().
Tick ==
    /\ pc = "loop"
    /\ batteryLevel' = TickBattery(batteryLevel)
    /\ clampStatus' = TickStatus(batteryLevel, clampStatus)
    /\ pc' = "send"
    /\ ticks' = Saturate(ticks, MaxTicks)
    /\ postsInCycle' = 0
    /\ ticksSincePost' = Saturate(ticksSincePost, MaxGap)
    /\ UNCHANGED <<wifi, wifiBegun, clampId, clampCity, inFlight,
                   httpResponseCode, initBattery, everLinked, sawConnected,
                   everPosted, delaysSincePost>>

\* sendStatusUpdate() with the link up, up to the blocking http.POST: the
\* request is built and sent.
SendConnected ==
    /\ wifi
    /\ inFlight' = Append(inFlight,
           Request(RequestBody(clampId, clampStatus, clampCity, batteryLevel)))
    /\ pc' = "post"
    /\ sawConnected' = TRUE
    /\ everPosted' = TRUE
    /\ postsInCycle' = postsInCycle + 1
    /\ ticksSincePost' = 0
    /\ delaysSincePost' = 0
    /\ UNCHANGED <<wifi, wifiBegun, record, httpResponseCode, initBattery,
                   ticks, everLinked>>

\* A send that does not test the link: the request goes out with the link down.
SendNotConnectedPostsAnyway ==
    /\ ~wifi
    /\ inFlight' = Append(inFlight,
           Request(RequestBody(clampId, clampStatus, clampCity, batteryLevel)))
    /\ pc' = "post"
    /\ everPosted' = TRUE
    /\ postsInCycle' = postsInCycle + 1
    /\ ticksSincePost' = 0
    /\ delaysSincePost' = 0
    /\ UNCHANGED <<wifi, wifiBegun, record, httpResponseCode, initBattery,
                   ticks, everLinked, sawConnected>>

\* sendStatusUpdate() with the link down: one line on Serial, and the
\* function returns into loop(), which starts its delay(5000).
SendNotConnected ==
    /\ ~wifi
    /\ pc' = "delay"
    /\ UNCHANGED <<wifi, wifiBegun, record, inFlight, httpResponseCode, observers>>

SendStatusUpdate ==
    /\ pc = "send"
    /\ (SendConnected \/ SendNotConnected)

\* A return that records a failed send in the record's status.
PostReturnMarksFailure ==
    /\ pc = "post"
    /\ inFlight # <<>>
    /\ \E code \in ResponseCodes :
          /\ httpResponseCode' = <<code>>
          /\ clampStatus' = IF code = 200 THEN clampStatus ELSE "offline"
    /\ inFlight' = Tail(inFlight)
    /\ pc' = "delay"
    /\ UNCHANGED <<wifi, wifiBegun, clampId, clampCity, batteryLevel, observers>>

\* A return that sends the request once more when the first send failed.
PostReturnRetries ==
    /\ pc = "post"
    /\ inFlight # <<>>
    /\ \E code \in ResponseCodes :
          /\ httpResponseCode' = <<code>>
          /\ IF code <= 0 /\ postsInCycle < 2
             THEN /\ inFlight' = Append(Tail(inFlight), Head(inFlight))
                  /\ postsInCycle' = postsInCycle + 1
                  /\ pc' = "post"
             ELSE /\ inFlight' = Tail(inFlight)
                  /\ postsInCycle' = postsInCycle
                  /\ pc' = "delay"
    /\ UNCHANGED <<wifi, wifiBegun, record, initBattery, ticks, everLinked,
                   sawConnected, everPosted, ticksSincePost, delaysSincePost>>

\* A return that stops the sketch when the send failed.
PostReturnHaltsOnError ==
    /\ pc = "post"
    /\ inFlight # <<>>
    /\ \E code \in ResponseCodes :
          /\ httpResponseCode' = <<code>>
          /\ pc' = IF code > 0 THEN "delay" ELSE "halted"
    /\ inFlight' = Tail(inFlight)
    /\ UNCHANGED <<wifi, wifiBegun, record, observers>>

\* http.POST returns a code; it is printed, http.end() is called and
\* sendStatusUpdate() returns into loop(), which starts its delay(5000).
PostReturn ==
    /\ pc = "post"
    /\ inFlight # <<>>
    /\ \E code \in ResponseCodes : httpResponseCode' = <<code>>
    /\ inFlight' = Tail(inFlight)
    /\ pc' = "delay"
    /\ UNCHANGED <<wifi, wifiBegun, record, observers>>

\* delay(5000) returns and loop() is called again.
Delay ==
    /\ pc = "delay"
    /\ pc' = "loop"
    /\ httpResponseCode' = <<>>
    /\ delaysSincePost' = Saturate(delaysSincePost, MaxGap)
    /\ UNCHANGED <<wifi, wifiBegun, record, inFlight, initBattery, ticks,
                   everLinked, sawConnected, everPosted, postsInCycle,
                   ticksSincePost>>

Next ==
    \/ LinkChange
    \/ ConnectBegin
    \/ ConnectCheck
    \/ ConnectDelay
    \/ Settle
    \/ Tick
    \/ SendStatusUpdate
    \/ PostReturn
    \/ Delay

Spec == Init /\ [][Next]_vars


(***************************************************************************)
(* The reporting loop under fair scheduling: the single thread keeps       *)
(* running, delay() returns, and the blocking http.POST is assumed to      *)
(* return.  Nothing is assumed of the link.                                *)
(***************************************************************************)
LiveInit == Init /\ initBattery <= LiveMaxBattery

LiveSpec ==
    /\ LiveInit
    /\ [][Next]_vars
    /\ WF_vars(Tick)
    /\ WF_vars(SendStatusUpdate)
    /\ WF_vars(PostReturn)
    /\ WF_vars(Delay)

(***************************************************************************)
(* Vocabulary of the properties.                                           *)
(***************************************************************************)
SetupPcs == {"setup", "connect_check", "connect_delay"}
LoopPcs == {"loop", "send", "post", "delay"}
PayloadKeys == {"clamp_id", "status", "city", "battery_level"}

\* A step is the tick, the call of http.POST, its return, or the whole of
\* sendStatusUpdate() with the link down.
TickStep == pc = "loop" /\ pc' = "send"
PostStep == pc = "send" /\ pc' = "post"
PostReturnStep == pc = "post" /\ pc' # "post"
SkippedSendStep == pc = "send" /\ ~wifi /\ pc' # "send"

\* The battery level k ticks after a start at b0.
Drained(b0, k) == IF b0 > k THEN b0 - k ELSE 0

----------------------------------------------------------------------------
(* C1: for every initial battery level B0 (status "available"), after B0   *)
(* ticks, and after every further tick, batteryLevel is 0 and the status   *)
(* is "low_battery".  Stated of the states a tick has produced.            *)
C1_DrainedAfterB0Ticks ==
    (ticks >= 1 /\ ticks >= initBattery)
        => (batteryLevel = 0 /\ clampStatus = LowBattery)

(* C2: in every state reached by ticks (the states in which a report is   *)
(* built and sent included), the status is "low_battery" if and only if    *)
(* batteryLevel is 0.                                                      *)
C2_LowBatteryIffZero ==
    ticks >= 1 => ((clampStatus = LowBattery) <=> (batteryLevel = 0))

(* C3: batteryLevel stays within 0..100 and at most its initial value; no  *)
(* step raises it; a tick lowers it by exactly 1 when it is positive and   *)
(* leaves it at 0 otherwise; no other step changes it.                     *)
C3_BatteryBounded ==
    /\ [](0 <= batteryLevel /\ batteryLevel <= 100 /\ batteryLevel <= initBattery)
    /\ [][/\ batteryLevel' <= batteryLevel
          /\ TickStep =>
                batteryLevel' = IF batteryLevel > 0 THEN batteryLevel - 1 ELSE 0
          /\ ~TickStep => batteryLevel' = batteryLevel]_vars

\* From the sketch's own initial level the floor has been reached and held.
C3_Witness ==
    /\ initBattery = InitialBatteryLevel
    /\ ticks > initBattery
    /\ batteryLevel = 0

(* C4: sendStatusUpdate() run with the link down begins and POSTs no HTTP  *)
(* request in that cycle and leaves the four record fields unchanged; the  *)
(* loop goes on to its delay and from there to the next tick.              *)
C4_SendWhileDisconnected ==
    [][/\ SkippedSendStep =>
            /\ pc' = "delay"
            /\ inFlight = <<>> /\ inFlight' = <<>>
            /\ postsInCycle' = 0
            /\ everPosted' = everPosted
            /\ record' = record
       /\ (pc = "delay" /\ pc' # "delay") => pc' = "loop"]_vars

\* A cycle whose send found the link down is in its delay.
C4_Witness ==
    /\ pc = "delay"
    /\ ticks >= 1
    /\ postsInCycle = 0
    /\ httpResponseCode = <<>>

(* C5: the outcome of a send and the state of the link never affect the    *)
(* record or the control flow: after k ticks the record is the one fixed   *)
(* by the initial record and k alone, sendStatusUpdate() leaves the four   *)
(* fields unchanged, and the POST's return always leads to the delay.      *)
C5_OutcomeIndependent ==
    /\ [](/\ clampId = InitialClampId
          /\ clampCity = InitialClampCity
          /\ batteryLevel = Drained(initBattery, ticks)
          /\ clampStatus =
                IF ticks > initBattery THEN LowBattery ELSE InitialClampStatus)
    /\ [][/\ pc \in {"send", "post"} => record' = record
          /\ PostReturnStep => pc' = "delay"]_vars

\* A send has been answered with HTTP 500 after an earlier cycle.
C5_Witness ==
    /\ pc = "delay"
    /\ httpResponseCode = <<500>>
    /\ ticks >= 2

(* C6: every POSTed payload holds exactly the four keys clamp_id, status,  *)
(* city, battery_level, and parsing it gives back the record's four values *)
(* as they are after that cycle's tick.                                    *)
C6_PayloadRoundTrip ==
    \A i \in 1..Len(inFlight) :
        LET body == inFlight[i].body
            obj == ParseJson(body)
        IN  /\ DOMAIN obj = PayloadKeys
            /\ Cardinality({j \in 1..Len(body) : body[j] = Tok("punct", ":")}) = 4
            /\ obj["clamp_id"] = StringValue(clampId)
            /\ obj["status"] = StringValue(clampStatus)
            /\ obj["city"] = StringValue(clampCity)
            /\ obj["battery_level"] = IntValue(batteryLevel)
            /\ ticks >= 1
            /\ batteryLevel = Drained(initBattery, ticks)

\* The first report of the sketch is in flight: battery_level 94, two digits.
C6_Witness ==
    /\ Len(inFlight) = 1
    /\ initBattery = InitialBatteryLevel
    /\ batteryLevel = 94

(* C7: at most one POST per cycle and at most one request in flight;       *)
(* between any two POSTs there is exactly one tick and one delay; a failed *)
(* send is not retried in its cycle; a POST starts only after the previous *)
(* one has returned.                                                       *)
C7_ExactlyOneTickBetweenPosts ==
    /\ [](Len(inFlight) <= 1 /\ postsInCycle <= 1)
    /\ [][PostStep =>
            /\ inFlight = <<>>
            /\ everPosted => (ticksSincePost = 1 /\ delaysSincePost = 1)]_vars

(* C7 as amended: at most one POST per cycle and at most one request in    *)
(* flight; between any two POSTs there is at least one tick and one delay, *)
(* as many delays as ticks (one of each for every cycle, the cycles that   *)
(* found the link down included); a failed send is not retried in its      *)
(* cycle; a POST starts only after the previous one has returned.          *)
C7_OnePostPerCycle ==
    /\ [](/\ Len(inFlight) <= 1
          /\ postsInCycle <= 1
          /\ inFlight # <<>> => pc = "post")
    /\ [][PostStep =>
            /\ inFlight = <<>>
            /\ postsInCycle = 0
            /\ everPosted =>
                  /\ ticksSincePost >= 1
                  /\ delaysSincePost = ticksSincePost]_vars

\* A POST is about to follow an earlier one across a cycle that sent nothing.
C7_Witness ==
    /\ pc = "send"
    /\ wifi
    /\ everPosted
    /\ ticksSincePost = 2

(* C8: once setup() has completed the loop never stops: whatever the send  *)
(* outcomes, a tick always follows, so ticks occur infinitely often.       *)
C8_TicksForever ==
    <>(pc \in LoopPcs) => []<><<Tick>>_vars

\* A send has failed with a transport error; the loop is in its delay.
C8_Witness ==
    /\ pc = "delay"
    /\ httpResponseCode = <<-1>>
    /\ ticks >= 1

(* C9: no tick and no POST happens before WiFi.status() has reported       *)
(* connected: connectToWiFi() returns only then, and as long as the link   *)
(* has never been up the sketch is still in setup with its initial record. *)
C9_NoWorkBeforeConnected ==
    /\ (ticks > 0 \/ everPosted \/ pc \notin SetupPcs) => sawConnected
    /\ sawConnected => everLinked
    /\ ~everLinked =>
          /\ pc \in SetupPcs
          /\ record = <<InitialClampId, InitialClampCity, initBattery,
                        InitialClampStatus>>
          /\ inFlight = <<>>

\* connectToWiFi() is polling a link that has never come up.
C9_Witness ==
    /\ pc = "connect_delay"
    /\ wifiBegun
    /\ ~everLinked

(* C10: the status is changed only by a tick that starts with batteryLevel *)
(* 0; from battery B0 and status "available" it is "low_battery" from tick *)
(* B0 + 1 on and never before; "low_battery" implies batteryLevel 0; once  *)
(* "low_battery" the status never changes again.                           *)
C10_StatusChangesAtTickAfterZero ==
    /\ [](/\ (clampStatus = LowBattery) <=> (ticks > initBattery)
          /\ clampStatus \in {InitialClampStatus, LowBattery}
          /\ clampStatus = LowBattery => batteryLevel = 0)
    /\ [][/\ clampStatus' # clampStatus => (TickStep /\ batteryLevel = 0)
          /\ clampStatus = LowBattery => clampStatus' = LowBattery]_vars

\* The sketch's own run right after its 96th tick.
C10_Witness ==
    /\ initBattery = InitialBatteryLevel
    /\ ticks = initBattery + 1
    /\ pc = "send"
    /\ clampStatus = LowBattery

=============================================================================
